---- MODULE Spec2Model ----
(***************************************************************************)
(* Uplink equalization + phase tracking + soft demodulation ("Demul") of   *)
(* shsym/Agora: DoDemul::Launch (src/agora/dodemul.cc), its predecessor    *)
(* DoDemul::launch (src/millipede/dodemul.cpp) and the client-side         *)
(* UeWorker::DoDemul with the worker's Start, Stop and TaskThread          *)
(* (src/client/ue_worker.cc).                                              *)
(*                                                                         *)
(* Complex samples are exact Gaussian integers <<re, im>>; angles are      *)
(* counted in quarter turns.  Buffers are functions from the flat offsets  *)
(* the code computes to the values stored there.                           *)
(***************************************************************************)
EXTENDS Integers, Sequences, FiniteSets, TLC

VARIABLES
  cfg,        \* the Config object and the build flags, fixed at construction
  store,      \* the frame-window store shared by all workers
  workers,    \* the Launch calls in progress, one per busy worker thread
  started,    \* tags handed to a worker so far
  hist,       \* observations kept for the properties (not read by the code)
  ue          \* the UeWorker object: thread, queues, running flag

vars == <<cfg, store, workers, started, hist, ue>>

----------------------------------------------------------------------------
(* Bounds of the model                                                     *)

MaxFrameWnd == 3       \* ring depths explored: kFrameWnd in 1..MaxFrameWnd
MaxFrames == 4         \* frame ids 0..MaxFrames-1 of the in-order model
MaxPilots == 2         \* ClientUlPilotSymbols in 0..MaxPilots
ConcFrames == 2        \* frames in flight in the concurrent model
ConcFrameWnd == 2      \* ring depths of the concurrent model
NumWorkers == 2        \* worker threads
MaxLaunches == 2       \* Launch calls per behaviour of the concurrent model
MaxCalls == 2          \* calls per behaviour of the single-call model
TaskFrames == 2        \* frame ids 0..TaskFrames-1 of the single-call model
MaxTags == 2           \* identifiers packed per behaviour of the tag model
MaxPhaseCalls == 3     \* calls per behaviour of the phase model
MaxEvents == 2         \* events put on the work queue of the UE worker
MaxStarts == 3         \* calls of UeWorker::Start per behaviour

(* Program constants                                                       *)

kSCsPerCacheline == 8  \* subcarriers per 64-byte cache line
kNumDoubleInSimd256 == 4
kQpsk == 2
kQaM16 == 4
kQaM64 == 6

----------------------------------------------------------------------------
(* Complex arithmetic (arma::cx_float)                                     *)

CZero == <<0, 0>>
CAdd(x, y) == <<x[1] + y[1], x[2] + y[2]>>
CMul(x, y) == <<x[1] * y[1] - x[2] * y[2], x[1] * y[2] + x[2] * y[1]>>
CConj(x) == <<x[1], -x[2]>>
CScale(k, x) == <<k * x[1], k * x[2]>>

Sgn(n) == IF n > 0 THEN 1 ELSE IF n < 0 THEN -1 ELSE 0

\* arma::sign of a complex number: z / |z|, and 0 for 0.  Exact on the axes,
\* which is where the pilot symbols of the model put it.
CSign(z) ==
  CASE z[2] = 0 -> <<Sgn(z[1]), 0>>
    [] z[1] = 0 -> <<0, Sgn(z[2])>>

\* arma::arg, in quarter turns, in (-2, 2]; arg(0) = atan2(0, 0) = 0.
CArg(z) ==
  CASE z[2] = 0 /\ z[1] >= 0 -> 0
    [] z[2] = 0 /\ z[1] < 0 -> 2
    [] z[1] = 0 /\ z[2] > 0 -> 1
    [] z[1] = 0 /\ z[2] < 0 -> -1

\* i^k
IUnit(k) ==
  CASE k % 4 = 0 -> <<1, 0>>
    [] k % 4 = 1 -> <<0, 1>>
    [] k % 4 = 2 -> <<-1, 0>>
    [] k % 4 = 3 -> <<0, -1>>

\* cos(t) + j sin(t) for t in quarter turns
CExp(t) == IUnit(t)

\* n / d for a float division whose result is a whole number of quarter turns
ExactDiv(n, d) == CHOOSE q \in -64..64 : q * d = n

Min(a, b) == IF a < b THEN a ELSE b
Max(a, b) == IF a > b THEN a ELSE b

RECURSIVE SumTo(_, _)
\* f(0) + ... + f(n-1) for an integer-valued f
SumTo(f, n) == IF n = 0 THEN 0 ELSE SumTo(f, n - 1) + f[n - 1]

RECURSIVE CSumTo(_, _)
CSumTo(f, n) == IF n = 0 THEN CZero ELSE CAdd(CSumTo(f, n - 1), f[n - 1])

RECURSIVE Pow2Mod(_, _)
\* 2^k mod m without leaving 32-bit integers
Pow2Mod(k, m) == IF k = 0 THEN 1 % m ELSE (2 * Pow2Mod(k - 1, m)) % m

----------------------------------------------------------------------------
(* Task identifiers (gen_tag_t): a 64-bit word, kept as its two 32-bit     *)
(* halves <<low, high>>: frame id in the low half, symbol id in bits 32-47 *)
(* and the subcarrier / antenna / UE id in bits 48-63.                     *)

FrmSymSc(frame_id, symbol_id, sc_id) ==
  <<frame_id, (symbol_id % 65536) + 65536 * (sc_id % 65536)>>

TagFrameId(tag) == tag[1]
TagSymbolId(tag) == tag[2] % 65536
TagScId(tag) == tag[2] \div 65536

\* An event that forgets the subcarrier and symbol part of the tag
EventData_TagTruncated(type, tag) == [event_type |-> type, tag |-> <<tag[1], 0>>]

EventData(type, tag) == [event_type |-> type, tag |-> tag]

----------------------------------------------------------------------------
(* Inputs of the stage, as the upstream stages leave them.  They are fixed *)
(* functions of their coordinates, different for every coordinate a wrong  *)
(* index could confuse.                                                    *)

\* Common phase error of uplink symbol symul of frame f: +1 or -1.
Drift(f, symul) == IF (f + symul) % 2 = 0 THEN 1 ELSE -1

\* Config::UeSpecificPilot()[ue][sc]: the known pilot of UE ue at subcarrier sc
UeSpecificPilot(u, sc) == CScale(IF u % 2 = 0 THEN 1 ELSE -1, IUnit(sc))

\* ue_pilot_data_: the pilot table transposed to (UE, subcarrier)
UePilotData(u, sc) == UeSpecificPilot(u, sc)

\* What antenna a received at subcarrier sc of uplink symbol symul of frame f.
RxSample(c, f, symul, a, sc) ==
  IF symul < c.ClientUlPilotSymbols
    THEN CScale(Drift(f, symul) * (1 + (a % 2)), IUnit(sc))
    ELSE <<1 + ((a + 2 * sc + f) % 3), (a + sc + symul) % 2>>

\* data_buffer_[total_data_symbol_idx_ul][off]: the FFT output of the frame that
\* occupies the row, in the configured layout.  Offsets past the symbol's
\* samples hold whatever lies there in memory.
DataBufAt(c, f, symul, off) ==
  LET T == c.kTransposeBlockSize
      A == c.BsAntNum
      a == IF c.kUsePartialTrans THEN (off % (T * A)) \div T
                                 ELSE off \div c.OfdmDataNum
      sc == IF c.kUsePartialTrans THEN (off \div (T * A)) * T + (off % T)
                                  ELSE off % c.OfdmDataNum
  IN IF a < A /\ sc < c.OfdmDataNum THEN RxSample(c, f, symul, a, sc)
                                    ELSE c.garbage

\* ul_zf_matrices_[frame_slot][sc]: a UeNum x BsAntNum matrix, column-major
ZfValue(c, slot, sc, idx) ==
  LET u == idx % c.UeNum
      a == idx \div c.UeNum
  IN <<1 + ((slot + sc + 2 * u + a) % 3), 0>>

\* Millipede: precoder_buffer_[row], row = slot * OFDM_DATA_NUM + sc
PrecoderBuffer(c, row, idx) ==
  ZfValue(c, row \div c.OfdmDataNum, row % c.OfdmDataNum, idx)

----------------------------------------------------------------------------
(* Frame schedule and index helpers of Config                             *)

\* Frame().GetULSymbolIdx: position of a symbol among the uplink symbols
GetULSymbolIdx(c, symbol_id) == symbol_id - c.ulStart

\* Config::GetTotalDataSymbolIdxUl: the buffer row of (frame slot, symbol)
GetTotalDataSymbolIdxUl(c, frame_id, symul) ==
  (frame_id % c.kFrameWnd) * c.NumULSyms + symul

\* Config::GetZfScId
GetZfScId(c, sc) == sc

\* (frame_id - 1) % kFrameWnd on size_t: frame_id - 1 wraps to 2^64 - 1 at 0
PrevFrameSlot(c, frame_id) ==
  IF frame_id > 0 THEN (frame_id - 1) % c.kFrameWnd
  ELSE (Pow2Mod(64, c.kFrameWnd) + c.kFrameWnd - 1) % c.kFrameWnd

\* std::min(DemulBlockSize(), OfdmDataNum() - base_sc_id)
MaxScIte(c, base_sc_id) == Min(c.DemulBlockSize, c.OfdmDataNum - base_sc_id)

----------------------------------------------------------------------------
(* Step 1: gather                                                          *)

PartialTransposeBlockBase(c, sc) ==
  (sc \div c.kTransposeBlockSize) * (c.kTransposeBlockSize * c.BsAntNum)

\* The vector gather: for ant_i = 0, w, 2w, ... < BsAntNum and each row j, one
\* w-wide load from src (advanced by w * kTransposeBlockSize per pass) stored
\* at dst + j * BsAntNum (advanced by w per pass).  Stores are in program
\* order, so a cell holds what the last store covering it wrote.
SimdGather(c, f, symul, cur_sc_offset, w, contiguousLoad) ==
  LET A == c.BsAntNum
      T == c.kTransposeBlockSize
      passes == {k \in 0..A : k % w = 0 /\ k < A}
      \* the stores <<ant_i, j>> that cover cell p, as their program-order rank
      covers(p) == {st[1] * kSCsPerCacheline + st[2] :
                      st \in {t \in passes \X (0..(kSCsPerCacheline - 1)) :
                                /\ p - (t[2] * A + t[1]) >= 0
                                /\ p - (t[2] * A + t[1]) < w}}
      val(p) ==
        LET cov == covers(p)
        IN IF cov = {} THEN c.garbage
           ELSE LET rank == CHOOSE r \in cov : \A o \in cov : o <= r
                    ant_i == rank \div kSCsPerCacheline
                    j == rank % kSCsPerCacheline
                    m == p - (j * A + ant_i)
                IN IF contiguousLoad
                     THEN DataBufAt(c, f, symul, cur_sc_offset + ant_i * T + j * A + m)
                     ELSE DataBufAt(c, f, symul, cur_sc_offset + ant_i * T + j + m * T)
  IN [p \in 0..(kSCsPerCacheline * A - 1) |-> val(p)]

\* The scalar gather of the else branch
ScalarGather(c, f, symul, first_sc) ==
  LET A == c.BsAntNum
      T == c.kTransposeBlockSize
  IN [p \in 0..(kSCsPerCacheline * A - 1) |->
        LET j == p \div A
            ant_i == p % A
        IN IF c.kUsePartialTrans
             THEN DataBufAt(c, f, symul,
                    PartialTransposeBlockBase(c, first_sc) + ant_i * T
                      + ((first_sc + j) % T))
             ELSE DataBufAt(c, f, symul, ant_i * c.OfdmDataNum + first_sc + j)]

\* data_gather_buffer_ after step 1 of the cache-line group starting at first_sc
AgoraGather(c, f, symul, first_sc) ==
  IF c.BsAntNum % 4 = 0 /\ c.kUsePartialTrans
    THEN SimdGather(c, f, symul,
           PartialTransposeBlockBase(c, first_sc) + (first_sc % c.kTransposeBlockSize),
           IF c.avx512 THEN 8 ELSE 4,
           c.avx512 /\ c.kTransposeBlockSize = 1)
    ELSE ScalarGather(c, f, symul, first_sc)

\* Millipede: spm_buffer after the gather of the cache line starting at first_sc
MillipedeGather(c, f, symbol_id, first_sc) ==
  SimdGather(c, f, symbol_id,
    (first_sc \div c.kTransposeBlockSize) * c.kTransposeBlockSize * c.BsAntNum
      + (first_sc % c.kTransposeBlockSize),
    4, FALSE)

----------------------------------------------------------------------------
(* Step 2: equalization                                                    *)

\* mkl_jit_cgemm_ as created in the constructor: column-major C = alpha*A*B +
\* beta*C with m = UeNum, n = 1, k = BsAntNum, lda = UeNum, ldb = BsAntNum,
\* ldc = UeNum, alpha = 1, beta = 0.  Returns C as [0..m-1 -> complex].
JitCgemm(c, a_ptr, b_ptr) ==
  LET m == c.UeNum
      k == c.BsAntNum
      lda == c.UeNum
  IN [i \in 0..(m - 1) |->
        CSumTo([l \in 0..(k - 1) |-> CMul(a_ptr[i + l * lda], b_ptr[l])], k)]

\* mat_ul_zf * mat_data with mat_ul_zf(ul_zf_ptr, UeNum, BsAntNum) and
\* mat_data(data_ptr, BsAntNum, 1): armadillo matrices are column-major.
ArmaMatVec(c, zf_ptr, data_ptr) ==
  LET At(row, col) == zf_ptr[col * c.UeNum + row]
  IN [u \in 0..(c.UeNum - 1) |->
        CSumTo([a \in 0..(c.BsAntNum - 1) |-> CMul(At(u, a), data_ptr[a])],
               c.BsAntNum)]

\* mat_equaled of subcarrier cur_sc_id, from row j of the gather buffer
AgoraEqualize(c, frame_id, gather, j, cur_sc_id) ==
  LET frame_slot == frame_id % c.kFrameWnd
      data_ptr == [a \in 0..(c.BsAntNum - 1) |-> gather[j * c.BsAntNum + a]]
      ul_zf_ptr == [idx \in 0..(c.UeNum * c.BsAntNum - 1) |->
                      ZfValue(c, frame_slot, GetZfScId(c, cur_sc_id), idx)]
  IN IF c.mklJit THEN JitCgemm(c, ul_zf_ptr, data_ptr)
                 ELSE ArmaMatVec(c, ul_zf_ptr, data_ptr)

\* Millipede: mat_equaled = mat_precoder * mat_data
MillipedeEqualize(c, frame_id, gather, j, cur_sc_id) ==
  LET row == (frame_id % c.kFrameWnd) * c.OfdmDataNum + cur_sc_id
      precoder_offset == IF c.freqOrth THEN row - (cur_sc_id % c.UeNum) ELSE row
      data_ptr == [a \in 0..(c.BsAntNum - 1) |-> gather[j * c.BsAntNum + a]]
      precoder_ptr == [idx \in 0..(c.UeNum * c.BsAntNum - 1) |->
                         PrecoderBuffer(c, precoder_offset, idx)]
  IN ArmaMatVec(c, precoder_ptr, data_ptr)

----------------------------------------------------------------------------
(* Soft-demodulation kernels (DemodQpskSoftSse, Demod16qamSoftAvx2,        *)
(* Demod64qamSoftAvx2 and Millipede's demod_16qam_soft kernels): one byte *)
(* per bit per subcarrier, bits x num bytes in all.  A byte is kept as the *)
(* term <<bits, re, im, bit>> it is computed from.                         *)

Llr(bits, z, b) == <<bits, z[1], z[2], b>>

DemodSoft(bits, vec_in, num) ==
  [n \in 0..(bits * num - 1) |-> Llr(bits, vec_in[n \div bits], n % bits)]

\* A switch whose default branch falls back to the 16-QAM kernel
KernelBits_DefaultRuns16Qam(mod_order_bits) ==
  IF mod_order_bits \in {kQpsk, kQaM64} THEN mod_order_bits ELSE kQaM16

\* The kernel the switch on ModOrderBits() selects: its bits, 0 for default
KernelBits(mod_order_bits) ==
  CASE mod_order_bits = kQpsk -> kQpsk
    [] mod_order_bits = kQaM16 -> kQaM16
    [] mod_order_bits = kQaM64 -> kQaM64
    [] OTHER -> 0

----------------------------------------------------------------------------
(* DoDemul::Launch (Agora), as the steps a worker thread takes.  A step    *)
(* holds at most one access to memory another thread may touch.  x is      *)
(* [w: the call's locals, s: store, h: hist].                              *)

Idle ==
  [pc |-> "idle", tag |-> <<0, 0>>, k |-> 0, tmp |-> <<>>, equaled |-> <<>>,
   eqlog |-> <<>>, outlog |-> <<>>]

\* A Launch that takes the base subcarrier from the symbol field
AgoraInfo_ScFromSymbolField(c, tag) ==
  LET frame_id == TagFrameId(tag)
      symbol_id == TagSymbolId(tag)
      base_sc_id == TagSymbolId(tag)
      symbol_idx_ul == GetULSymbolIdx(c, symbol_id)
  IN [frame_id |-> frame_id, symbol_id |-> symbol_id, base_sc_id |-> base_sc_id,
      symbol_idx_ul |-> symbol_idx_ul,
      total |-> GetTotalDataSymbolIdxUl(c, frame_id, symbol_idx_ul),
      frame_slot |-> frame_id % c.kFrameWnd,
      max_sc_ite |-> MaxScIte(c, base_sc_id)]

AgoraInfo(c, tag) ==
  LET frame_id == TagFrameId(tag)
      symbol_id == TagSymbolId(tag)
      base_sc_id == TagScId(tag)
      symbol_idx_ul == GetULSymbolIdx(c, symbol_id)
  IN [frame_id |-> frame_id, symbol_id |-> symbol_id, base_sc_id |-> base_sc_id,
      symbol_idx_ul |-> symbol_idx_ul,
      total |-> GetTotalDataSymbolIdxUl(c, frame_id, symbol_idx_ul),
      frame_slot |-> frame_id % c.kFrameWnd,
      max_sc_ite |-> MaxScIte(c, base_sc_id)]

\* Subcarriers the loop "for (i = 0; i < max_sc_ite; i += kSCsPerCacheline)"
\* visits: whole cache lines.
LoopScCount(max_sc_ite) ==
  ((max_sc_ite + kSCsPerCacheline - 1) \div kSCsPerCacheline) * kSCsPerCacheline

\* The equalized value of (cur_sc, u) where the call keeps it
EqualAt(c, x, info, cur_sc, u) ==
  IF c.kExportConstellation
    THEN x.s.equal_buffer[<<info.total, cur_sc * c.UeNum + u>>]
    ELSE x.w.equaled[(cur_sc - info.base_sc_id) * c.UeNum + u]

\* An export build whose equal_ptr is indexed from the block base, as the
\* scratch buffer is
PutEqual_ExportBlockRelative(c, x, info, cur_sc, vec) ==
  IF c.kExportConstellation
    THEN [x EXCEPT !.s.equal_buffer =
            [a \in {<<info.total, (cur_sc - info.base_sc_id) * c.UeNum + u>> :
                      u \in 0..(c.UeNum - 1)}
               |-> vec[a[2] - (cur_sc - info.base_sc_id) * c.UeNum]] @@ @]
    ELSE [x EXCEPT !.w.equaled =
            [i \in {(cur_sc - info.base_sc_id) * c.UeNum + u : u \in 0..(c.UeNum - 1)}
               |-> vec[i - (cur_sc - info.base_sc_id) * c.UeNum]] @@ @]

\* mat_equaled = vec, through equal_ptr
PutEqual(c, x, info, cur_sc, vec) ==
  IF c.kExportConstellation
    THEN [x EXCEPT !.s.equal_buffer =
            [a \in {<<info.total, cur_sc * c.UeNum + u>> : u \in 0..(c.UeNum - 1)}
               |-> vec[a[2] - cur_sc * c.UeNum]] @@ @]
    ELSE [x EXCEPT !.w.equaled =
            [i \in {(cur_sc - info.base_sc_id) * c.UeNum + u : u \in 0..(c.UeNum - 1)}
               |-> vec[i - (cur_sc - info.base_sc_id) * c.UeNum]] @@ @]

\* Steps 1 and 2 for subcarrier base_sc_id + k
Equalized(c, info, k) ==
  LET i == (k \div kSCsPerCacheline) * kSCsPerCacheline
      j == k % kSCsPerCacheline
      gather == AgoraGather(c, info.frame_id, info.symbol_idx_ul, info.base_sc_id + i)
  IN AgoraEqualize(c, info.frame_id, gather, j, info.base_sc_id + k)

\* ue_pilot_data_.col(cur_sc_id)
PilotCol(c, u, cur_sc) ==
  IF cur_sc < c.OfdmDataNum THEN UePilotData(u, cur_sc) ELSE c.garbage

\* shift_sc = sign(mat_equaled % conj(ue_pilot_data_.col(cur_sc_id)))
ShiftSc(c, x, info, cur_sc) ==
  [u \in 0..(c.UeNum - 1) |->
     CSign(CMul(EqualAt(c, x, info, cur_sc, u), CConj(PilotCol(c, u, cur_sc))))]

\* A symbol-0 task that does not zero anything
ResetPrevFrame_Skipped(c, buf, frame_id) == buf

\* "Reset previous frame": mat_phase_shift.fill(0) over UeNum x pilot symbols
ResetPrevFrame(c, buf, frame_id) ==
  [buf EXCEPT ![PrevFrameSlot(c, frame_id)] =
     [idx \in DOMAIN @ |->
        IF idx < c.UeNum * c.ClientUlPilotSymbols THEN CZero ELSE @[idx]]]

\* theta_mat = arg(pilot_corr_mat), entry (UE u, pilot symbol sy).  An entry the
\* slot was not allocated with holds whatever lies there in memory.
Theta(c, pilot_corr, u, sy) ==
  LET idx == sy * c.UeNum + u
  IN CArg(IF idx \in DOMAIN pilot_corr THEN pilot_corr[idx] ELSE c.garbage)

\* An increment that is the last difference only, over max(1, P - 1)
ThetaInc_LastDifference(c, pilot_corr, u) ==
  LET P == c.ClientUlPilotSymbols
  IN IF P > 1
       THEN ExactDiv(Theta(c, pilot_corr, u, P - 1) - Theta(c, pilot_corr, u, P - 2),
                     P - 1)
       ELSE 0

\* An increment whose loop starts at s = 0, with 0 for the column before the
\* first
ThetaInc_LoopFromZero(c, pilot_corr, u) ==
  LET P == c.ClientUlPilotSymbols
  IN ExactDiv(Theta(c, pilot_corr, u, Max(0, P - 1)), Max(1, P - 1))

\* theta_inc: the differences theta_mat.col(s) - theta_mat.col(s - 1) summed by
\* the loop "for (s = 1; s < P; s++)" (Max(0, P - 1) iterations), divided by
\* max(1, P - 1)
ThetaInc(c, pilot_corr, u) ==
  LET P == c.ClientUlPilotSymbols
  IN ExactDiv(SumTo([d \in 0..(P - 2) |->
                       Theta(c, pilot_corr, u, d + 1) - Theta(c, pilot_corr, u, d)],
                    Max(0, P - 1)),
              Max(1, P - 1))

\* A correction that extrapolates from angle 0 instead of theta_mat.col(0)
CurTheta_NoTheta0(c, pilot_corr, u, symbol_idx_ul) ==
  symbol_idx_ul * ThetaInc(c, pilot_corr, u)

\* cur_theta = theta_mat.col(0) + (symbol_idx_ul * theta_inc)
CurTheta(c, pilot_corr, u, symbol_idx_ul) ==
  Theta(c, pilot_corr, u, 0) + symbol_idx_ul * ThetaInc(c, pilot_corr, u)

\* mat_phase_correct = cos(-cur_theta) + j sin(-cur_theta), per UE
PhaseCorrect(c, pilot_corr, symbol_idx_ul) ==
  [u \in 0..(c.UeNum - 1) |-> CExp(-CurTheta(c, pilot_corr, u, symbol_idx_ul))]

\* A phase tracker that corrects whenever the symbol is not a pilot symbol,
\* whether or not the frame carries pilot symbols
PhaseBranch_CorrectsWithoutPilots(c, symbol_idx_ul) ==
  IF symbol_idx_ul < c.ClientUlPilotSymbols THEN "accumulate" ELSE "correct"

\* What the phase tracker does with a symbol: "if (symbol_idx_ul <
\* ClientUlPilotSymbols()) ... else if (ClientUlPilotSymbols() > 0) ..."
PhaseBranch(c, symbol_idx_ul) ==
  IF symbol_idx_ul < c.ClientUlPilotSymbols THEN "accumulate"
  ELSE IF c.ClientUlPilotSymbols > 0 THEN "correct"
  ELSE "none"

NextSc(c, x, info) ==
  [x EXCEPT !.w.k = @ + 1,
            !.w.pc = IF x.w.k + 1 < LoopScCount(info.max_sc_ite) THEN "eq" ELSE "demod"]

\* The pilot sums of frame f when every subcarrier of every pilot symbol has
\* been accumulated exactly once, straight from the inputs
FullAcc(c, f) ==
  [idx \in 0..(c.UeNum * c.ClientUlPilotSymbols - 1) |->
     LET u == idx % c.UeNum
         p == idx \div c.UeNum
         eq(sc) == CSumTo([a \in 0..(c.BsAntNum - 1) |->
                             CMul(ZfValue(c, f % c.kFrameWnd, sc, u + a * c.UeNum),
                                  RxSample(c, f, p, a, sc))], c.BsAntNum)
     IN CSumTo([sc \in 0..(c.OfdmDataNum - 1) |->
                  CSign(CMul(eq(sc), CConj(UeSpecificPilot(u, sc))))],
               c.OfdmDataNum)]

\* Step 3: per UE, transpose the block and run the kernel; return the event
AgoraDemod(c, x, info) ==
  LET U == c.UeNum
      M == c.ModOrderBits
      bits == KernelBits(M)
      max == info.max_sc_ite
      gathered == (max \div kNumDoubleInSimd256) * kNumDoubleInSimd256
      src(idx) ==
        IF c.kExportConstellation
          THEN IF <<info.total, info.base_sc_id * U + idx>> \in DOMAIN x.s.equal_buffer
                 THEN x.s.equal_buffer[<<info.total, info.base_sc_id * U + idx>>]
                 ELSE c.garbage
          ELSE IF idx \in DOMAIN x.w.equaled THEN x.w.equaled[idx] ELSE c.garbage
      \* equaled_buffer_temp_transposed_ as the kernel of UE i reads it
      tr(i) == [k \in 0..(max - 1) |->
                  IF k < gathered THEN src(i + k * U) ELSE c.garbage]
      addrs == {<<info.frame_slot, info.symbol_idx_ul, i, M * info.base_sc_id + n>> :
                  i \in 0..(U - 1), n \in 0..(bits * max - 1)}
      din == [i \in 0..(U - 1) |-> tr(i)]
      out == [i \in 0..(U - 1) |-> DemodSoft(bits, din[i], max)]
      new == [a \in addrs |-> out[a[3]][a[4] - M * info.base_sc_id]]
      me == <<info.frame_slot, info.symbol_idx_ul, info.base_sc_id>>
  IN [x EXCEPT
        !.s.demod_buffers = new @@ @,
        !.h.llrWriters =
          [a \in addrs |-> (IF a \in DOMAIN @ THEN @[a] ELSE {}) \cup {me}] @@ @,
        !.h.calls = (x.w.tag :> [variant |-> "agora", eqlog |-> x.w.eqlog,
                                 outlog |-> x.w.outlog,
                                 din |-> din,
                                 wrote |-> addrs,
                                 ret |-> EventData("kDemul", x.w.tag)]) @@ @,
        !.w = Idle]

\* One step of the call in x.w
AgoraStep(c, x) ==
  LET info == AgoraInfo(c, x.w.tag)
      U == c.UeNum
      symul == info.symbol_idx_ul
      cur_sc == info.base_sc_id + x.w.k
      slot == info.frame_id % c.kFrameWnd
      col == [u \in 0..(U - 1) |-> x.s.ue_spec_pilot_buffer[slot][symul * U + u]]
  IN CASE x.w.pc = "eq" ->
            LET vec == Equalized(c, info, x.w.k)
                y == [PutEqual(c, x, info, cur_sc, vec) EXCEPT
                        !.w.eqlog = [a \in {<<cur_sc, u>> : u \in 0..(U - 1)}
                                       |-> vec[a[2]]] @@ @,
                        !.w.outlog = [a \in {<<cur_sc, u>> : u \in 0..(U - 1)}
                                        |-> vec[a[2]]] @@ @]
            IN IF PhaseBranch(c, symul) = "accumulate"
                 THEN IF symul = 0 /\ cur_sc = 0
                        THEN [y EXCEPT
                                !.s.ue_spec_pilot_buffer =
                                  ResetPrevFrame(c, @, info.frame_id),
                                !.h.resetDone = @ \cup {info.frame_id},
                                !.w.pc = "read"]
                        ELSE [y EXCEPT !.w.tmp = col, !.w.pc = "write"]
                 ELSE IF PhaseBranch(c, symul) = "correct"
                        THEN LET corr == PhaseCorrect(c, y.s.ue_spec_pilot_buffer[slot],
                                                      symul)
                                 out == [u \in 0..(U - 1) |-> CMul(vec[u], corr[u])]
                                 z == PutEqual(c, y, info, cur_sc, out)
                             IN NextSc(c,
                                  [z EXCEPT
                                     !.w.outlog =
                                       [a \in {<<cur_sc, u>> : u \in 0..(U - 1)}
                                          |-> out[a[2]]] @@ @,
                                     !.h.badRead =
                                       IF y.s.ue_spec_pilot_buffer[slot]
                                            # FullAcc(c, info.frame_id)
                                         THEN @ \cup {x.w.tag} ELSE @],
                                  info)
                        ELSE NextSc(c, y, info)
       [] x.w.pc = "read" -> [x EXCEPT !.w.tmp = col, !.w.pc = "write"]
       [] x.w.pc = "write" ->
            LET shift_sc == ShiftSc(c, x, info, cur_sc)
            IN NextSc(c,
                 [x EXCEPT
                    !.s.ue_spec_pilot_buffer[slot] =
                      [idx \in DOMAIN @ |->
                         IF idx \div U = symul
                           THEN CAdd(x.w.tmp[idx % U], shift_sc[idx % U])
                           ELSE @[idx]],
                    !.h.early = IF info.frame_id \in x.h.resetDone
                                  THEN @
                                  ELSE @ \cup {<<info.frame_id, symul,
                                                  info.base_sc_id>>}],
                 info)
       [] x.w.pc = "demod" -> AgoraDemod(c, x, info)

\* Entry of Launch: decode the tag, assert(max_sc_ite % kSCsPerCacheline == 0)
AgoraBegin(c, x, tag) ==
  [x EXCEPT !.w =
     [Idle EXCEPT
        !.tag = tag,
        !.pc = IF ~c.ndebug /\ MaxScIte(c, TagScId(tag)) % kSCsPerCacheline # 0
                 THEN "aborted" ELSE "eq"]]

RECURSIVE AgoraRun(_, _)
\* The call in x.w run to its return (or to the failed assertion)
AgoraRun(c, x) ==
  IF x.w.pc \in {"idle", "aborted"} THEN x ELSE AgoraRun(c, AgoraStep(c, x))

\* DoDemul::Launch(tag) as one uninterrupted call
Launch(c, x, tag) == AgoraRun(c, AgoraBegin(c, x, tag))

----------------------------------------------------------------------------
(* DoDemul::launch (Millipede), one uninterrupted call.  x is [s, h].      *)

\* demod_16qam_hard_avx2 on one equalized value (kernel outside this source)
Hard16(z) == <<"hard16", z[1], z[2]>>

RECURSIVE MergeUpTo(_, _)
\* The stores of UEs 0..n-1 in program order: a later store overwrites
MergeUpTo(f, n) == IF n = 0 THEN <<>> ELSE f[n - 1] @@ MergeUpTo(f, n - 1)

MillipedeLaunch(c, x, tag) ==
  LET frame_id == TagFrameId(tag)
      symbol_id == TagSymbolId(tag)
      base_sc_id == TagScId(tag)
      total == GetTotalDataSymbolIdxUl(c, frame_id, symbol_id)
      U == c.UeNum
      N == c.OfdmDataNum
      mod_type == c.ModOrderBits
      max_sc_ite == MaxScIte(c, base_sc_id)
      \* for (i = 0; i < max_sc_ite / 8; i++) for (j = 0; j < 8; j++)
      ks == 0..((max_sc_ite \div kSCsPerCacheline) * kSCsPerCacheline - 1)
      eq == [k \in ks |->
               MillipedeEqualize(c, frame_id,
                 MillipedeGather(c, frame_id, symbol_id,
                   base_sc_id + (k \div kSCsPerCacheline) * kSCsPerCacheline),
                 k % kSCsPerCacheline, base_sc_id + k)]
      eqlog == [a \in {<<base_sc_id + k, u>> : k \in ks, u \in 0..(U - 1)} |->
                  eq[a[1] - base_sc_id][a[2]]]
      \* equal_ptr of the first loop: the export buffer or the scratch
      exported == [a \in {<<total, (base_sc_id + k) * U + u>> :
                            k \in ks, u \in 0..(U - 1)} |->
                     eq[(a[2] \div U) - base_sc_id][a[2] % U]]
      scratch == [i \in {k * U + u : k \in ks, u \in 0..(U - 1)} |->
                    eq[i \div U][i % U]]
      \* equaled_buffer_temp as the second loop reads it: never written when
      \* the first loop stored to the export buffer
      Temp(i) == IF ~c.kExportConstellation /\ i \in DOMAIN scratch
                   THEN scratch[i] ELSE c.garbage
      hard == [a \in {<<total, (base_sc_id + k) * U + u>> :
                        k \in ks, u \in 0..(U - 1)} |->
                 Hard16(eq[(a[2] \div U) - base_sc_id][a[2] % U])]
      \* second loop: equal_T_ptr runs on over the UEs, 4 values per gather
      g4 == (max_sc_ite \div kNumDoubleInSimd256) * kNumDoubleInSimd256
      Transposed(idx) == Temp((idx \div g4) + (idx % g4) * U)
      din == [i \in 0..(U - 1) |->
                [k \in 0..(max_sc_ite - 1) |->
                   LET idx == (i + 1) * g4 - max_sc_ite + k
                   IN IF idx >= 0 /\ idx < (i + 1) * g4
                        THEN Transposed(idx) ELSE c.garbage]]
      kin(i) == din[i]
      num_sc_avx2 == (max_sc_ite \div 16) * 16
      rest == max_sc_ite % 16
      demul(i) == (N * i + base_sc_id) * mod_type
      avx2(i) == [a \in {<<total, demul(i) + n>> : n \in 0..(kQaM16 * num_sc_avx2 - 1)} |->
                    LET n == a[2] - demul(i)
                    IN Llr(kQaM16, kin(i)[n \div kQaM16], n % kQaM16)]
      sse(i) == [a \in {<<total, demul(i) + mod_type * num_sc_avx2 + n>> :
                          n \in 0..(kQaM16 * rest - 1)} |->
                   LET n == a[2] - demul(i) - mod_type * num_sc_avx2
                   IN Llr(kQaM16, kin(i)[num_sc_avx2 + (n \div kQaM16)], n % kQaM16)]
      soft == MergeUpTo([i \in 0..(U - 1) |-> sse(i) @@ avx2(i)], U)
      me == <<frame_id % c.kFrameWnd, symbol_id, base_sc_id>>
      wrote == IF c.useLdpc THEN DOMAIN soft ELSE {}
  IN [x EXCEPT
        !.s.equal_buffer = IF c.kExportConstellation THEN exported @@ @ ELSE @,
        !.s.demod_hard_buffer = IF c.useLdpc THEN @ ELSE hard @@ @,
        !.s.demod_soft_buffer = IF c.useLdpc THEN soft @@ @ ELSE @,
        !.h.llrWriters =
          [a \in wrote |-> (IF a \in DOMAIN @ THEN @[a] ELSE {}) \cup {me}] @@ @,
        !.h.calls = (tag :> [variant |-> "millipede", eqlog |-> eqlog,
                             outlog |-> eqlog,
                             din |-> IF c.useLdpc THEN din ELSE <<>>,
                             wrote |-> wrote,
                             ret |-> EventData("kDemul", tag)]) @@ @]

----------------------------------------------------------------------------
(* UeWorker::DoDemul, one call on the worker thread.  y is [ue, h].        *)

\* Frame().GetDLSymbolIdx: position of a symbol among the downlink symbols
GetDLSymbolIdx(c, symbol_id) == symbol_id - c.dlStart

\* equal_buffer_[offset][sc]: the equalized downlink symbols DoFftData left
UeEqualBuffer(c, offset, sc) == <<1 + ((offset + sc) % 3), (offset + 2 * sc) % 2>>

UeDoDemul(c, y, tag) ==
  LET frame_id == TagFrameId(tag)
      symbol_id == TagSymbolId(tag)
      ant_id == TagScId(tag)
      frame_slot == frame_id % c.kFrameWnd
      dl_symbol_id == GetDLSymbolIdx(c, symbol_id)
      total_dl_symbol_id ==
        frame_slot * c.NumDlDataSyms + dl_symbol_id - c.ClientDlPilotSymbols
      offset == total_dl_symbol_id * c.UeAntNum + ant_id
      equal_ptr == [sc \in 0..(c.OfdmDataNum - 1) |-> UeEqualBuffer(c, offset, sc)]
      base_sc_id == 0
      bits == KernelBits(c.ModOrderBits)
      addrs == {<<frame_slot, dl_symbol_id, ant_id, c.ModOrderBits * base_sc_id + n>> :
                  n \in 0..(bits * c.OfdmDataNum - 1)}
      out == DemodSoft(bits, equal_ptr, c.OfdmDataNum)
      new == [a \in addrs |-> out[a[4] - c.ModOrderBits * base_sc_id]]
      me == <<frame_slot, dl_symbol_id, ant_id>>
  IN [y EXCEPT
        !.ue.demod_buffer = new @@ @,
        !.ue.notify_queue = Append(@, EventData("kDemul", tag)),
        !.h.llrWriters =
          [a \in addrs |-> (IF a \in DOMAIN @ THEN @[a] ELSE {}) \cup {me}] @@ @,
        !.h.calls = (tag :> [variant |-> "ue",
                             din |-> (ant_id :> equal_ptr),
                             wrote |-> addrs]) @@ @]

----------------------------------------------------------------------------
(* Construction                                                            *)

BaseCfg ==
  [variant |-> "agora", kFrameWnd |-> 2, BsAntNum |-> 2, UeNum |-> 2,
   OfdmDataNum |-> 16, DemulBlockSize |-> 8, kTransposeBlockSize |-> 8,
   ClientUlPilotSymbols |-> 1, NumULSyms |-> 2, ModOrderBits |-> kQpsk,
   kExportConstellation |-> FALSE, kUsePartialTrans |-> TRUE, avx512 |-> FALSE,
   mklJit |-> FALSE, ndebug |-> FALSE, freqOrth |-> FALSE, useLdpc |-> TRUE,
   ulStart |-> 1, garbage |-> <<0, 0>>,
   UeAntNum |-> 2, NumDlDataSyms |-> 1, ClientDlPilotSymbols |-> 1, dlStart |-> 1]

\* The frame-window store after allocation: accumulators zeroed, output
\* buffers not yet written (a missing address holds its prior content).
InitStore(c) ==
  [ue_spec_pilot_buffer |->
     [slot \in 0..(c.kFrameWnd - 1) |->
        [idx \in 0..(c.UeNum * c.ClientUlPilotSymbols - 1) |-> CZero]],
   equal_buffer |-> <<>>,
   demod_buffers |-> <<>>,
   demod_soft_buffer |-> <<>>,
   demod_hard_buffer |-> <<>>]

InitHist ==
  [llrWriters |-> <<>>, calls |-> <<>>, resetDone |-> {}, early |-> {},
   badRead |-> {}, resetOrdered |-> TRUE, aborted |-> {}]

InitUe == [notify_queue |-> <<>>, demod_buffer |-> <<>>]

\* Base subcarriers of the blocks of a symbol
BlockBases(c) == {b \in 0..(c.OfdmDataNum - 1) : b % c.DemulBlockSize = 0}

\* The Demul tasks of frame f
FrameTags(c, f) ==
  {FrmSymSc(f, c.ulStart + sy, b) : sy \in 0..(c.NumULSyms - 1), b \in BlockBases(c)}

\* Pilot-symbol tasks of frame f; the one that carries the reset
PilotTags(c, f) ==
  {t \in FrameTags(c, f) : GetULSymbolIdx(c, TagSymbolId(t)) < c.ClientUlPilotSymbols}
ResetTag(c, f) == FrmSymSc(f, c.ulStart, 0)

Done == DOMAIN hist.calls

----------------------------------------------------------------------------
(* The concurrent model: NumWorkers threads, each running one Launch at a  *)
(* time; the scheduler hands out any task of a frame within the window.    *)

ConcConfigs ==
  {[BaseCfg EXCEPT !.kFrameWnd = w] : w \in 1..ConcFrameWnd}

Init ==
  /\ cfg \in ConcConfigs
  /\ store = InitStore(cfg)
  /\ workers = {}
  /\ started = {}
  /\ hist = InitHist
  /\ ue = InitUe

\* A frame may be worked on once every frame that used its slot is finished
InWindow(f) ==
  \A g \in 0..(f - 1) : g + cfg.kFrameWnd <= f => FrameTags(cfg, g) \subseteq Done

Dispatch(tag) ==
  /\ tag \notin started
  /\ Cardinality(workers) < NumWorkers
  /\ Cardinality(started) < MaxLaunches
  /\ InWindow(TagFrameId(tag))
  /\ LET x == AgoraBegin(cfg, [w |-> Idle, s |-> store, h |-> hist], tag)
         f == TagFrameId(tag)
         late == tag \in PilotTags(cfg, f) /\ tag # ResetTag(cfg, f)
                   /\ ResetTag(cfg, f) \notin Done
     IN /\ workers' = workers \cup {x.w}
        /\ hist' = [hist EXCEPT !.resetOrdered = @ /\ ~late]
  /\ started' = started \cup {tag}
  /\ UNCHANGED <<cfg, store, ue>>

WorkerStep(w) ==
  /\ w.pc \notin {"idle", "aborted"}
  /\ LET x == AgoraStep(cfg, [w |-> w, s |-> store, h |-> hist])
     IN /\ workers' = (workers \ {w}) \cup (IF x.w.pc = "idle" THEN {} ELSE {x.w})
        /\ store' = x.s
        /\ hist' = x.h
  /\ UNCHANGED <<cfg, started, ue>>

Next ==
  \/ \E f \in 0..(ConcFrames - 1) : \E tag \in FrameTags(cfg, f) : Dispatch(tag)
  \/ \E w \in workers : WorkerStep(w)

Spec == Init /\ [][Next]_vars

----------------------------------------------------------------------------
(* The in-order model: one Launch at a time, run to its return; frames in  *)
(* ascending order, and within a frame the task that carries the reset     *)
(* first, then the other pilot tasks in any order, then the data tasks.    *)

SeqConfigs ==
  {[BaseCfg EXCEPT !.kFrameWnd = w, !.ClientUlPilotSymbols = p, !.NumULSyms = p + 1] :
     w \in 1..MaxFrameWnd, p \in 1..MaxPilots}

InitSeq ==
  /\ cfg \in SeqConfigs
  /\ store = InitStore(cfg)
  /\ workers = {}
  /\ started = {}
  /\ hist = InitHist
  /\ ue = InitUe

SeqLaunch(tag) ==
  /\ tag \notin started
  /\ \A g \in 0..(TagFrameId(tag) - 1) : FrameTags(cfg, g) \subseteq Done
  /\ tag = ResetTag(cfg, TagFrameId(tag)) \/ ResetTag(cfg, TagFrameId(tag)) \in Done
  /\ tag \in PilotTags(cfg, TagFrameId(tag))
       \/ PilotTags(cfg, TagFrameId(tag)) \subseteq Done
  /\ \E x \in {Launch(cfg, [w |-> Idle, s |-> store, h |-> hist], tag)} :
       /\ store' = x.s
       /\ hist' = x.h
  /\ started' = started \cup {tag}
  /\ UNCHANGED <<cfg, workers, ue>>

NextSeq ==
  \E f \in 0..(MaxFrames - 1) : \E tag \in FrameTags(cfg, f) : SeqLaunch(tag)

SpecSeq == InitSeq /\ [][NextSeq]_vars

----------------------------------------------------------------------------
(* The single-call model: a build and configuration is drawn, then up to   *)
(* MaxCalls calls of its Demul operation run one after the other.          *)

\* ModOrderBits values: the three supported ones and one the switch lacks
ModOrders == {kQpsk, kQaM16, kQaM64, kQaM64 + 2}

\* What an uninitialised or out-of-range location may hold
Garbage == {<<0, 0>>, <<0, 5>>}

AgoraConfigs ==
  {[BaseCfg EXCEPT !.BsAntNum = 4, !.ModOrderBits = m, !.kExportConstellation = e,
                   !.ClientUlPilotSymbols = 0, !.NumULSyms = 1] :
     m \in ModOrders, e \in BOOLEAN}
  \cup {[BaseCfg EXCEPT !.BsAntNum = 4, !.ModOrderBits = kQaM16, !.mklJit = TRUE,
                        !.kExportConstellation = e,
                        !.ClientUlPilotSymbols = 0, !.NumULSyms = 1] : e \in BOOLEAN}
  \cup {[BaseCfg EXCEPT !.BsAntNum = 4, !.ModOrderBits = kQaM16, !.NumULSyms = 3,
                        !.OfdmDataNum = 8, !.kExportConstellation = e, !.mklJit = e] :
          e \in BOOLEAN}
  \cup {[BaseCfg EXCEPT !.OfdmDataNum = 24, !.DemulBlockSize = 16,
                        !.ModOrderBits = kQaM16, !.ClientUlPilotSymbols = 0,
                        !.NumULSyms = 1]}
  \cup {[BaseCfg EXCEPT !.BsAntNum = 12, !.avx512 = TRUE, !.garbage = g,
                        !.ClientUlPilotSymbols = 0, !.NumULSyms = 1] : g \in Garbage}
  \cup {[BaseCfg EXCEPT !.OfdmDataNum = 20, !.ModOrderBits = kQaM16, !.ndebug = nd,
                        !.ClientUlPilotSymbols = 0, !.NumULSyms = 1] : nd \in BOOLEAN}
  \cup {[BaseCfg EXCEPT !.kTransposeBlockSize = 4, !.ModOrderBits = kQaM16,
                        !.ClientUlPilotSymbols = 0, !.NumULSyms = 1]}
  \cup {[BaseCfg EXCEPT !.kFrameWnd = w, !.OfdmDataNum = 8, !.ModOrderBits = kQaM16,
                        !.ClientUlPilotSymbols = 2, !.NumULSyms = 2] : w \in {2, 3}}

MillipedeBase ==
  [BaseCfg EXCEPT !.variant = "millipede", !.BsAntNum = 4, !.ulStart = 0,
                  !.ClientUlPilotSymbols = 0, !.NumULSyms = 1]

\* The scratch content matters only to a build that exports the constellation
MillipedeConfigs ==
  {c \in {[MillipedeBase EXCEPT !.ModOrderBits = m, !.kExportConstellation = e,
                                !.freqOrth = fo, !.garbage = g] :
            m \in {kQpsk, kQaM16, kQaM64}, e \in BOOLEAN, fo \in BOOLEAN,
            g \in Garbage} :
     c.kExportConstellation \/ c.garbage = CZero}
  \cup {[MillipedeBase EXCEPT !.ModOrderBits = kQaM16, !.useLdpc = FALSE,
                              !.kExportConstellation = e] : e \in BOOLEAN}
  \cup {[MillipedeBase EXCEPT !.ModOrderBits = kQaM64, !.OfdmDataNum = 48,
                              !.DemulBlockSize = 24]}
  \cup {[MillipedeBase EXCEPT !.ModOrderBits = kQaM16, !.OfdmDataNum = 20]}

UeConfigs == {[BaseCfg EXCEPT !.variant = "ue", !.ModOrderBits = m] : m \in ModOrders}

TaskConfigs == AgoraConfigs \cup MillipedeConfigs \cup UeConfigs

\* The tags the scheduler may hand to the operation of configuration c
TaskTags(c) ==
  IF c.variant = "ue"
    THEN {FrmSymSc(f, c.dlStart + c.ClientDlPilotSymbols + d, ant) :
            f \in 0..(TaskFrames - 1), d \in 0..(c.NumDlDataSyms - 1),
            ant \in 0..(c.UeAntNum - 1)}
    ELSE UNION {FrameTags(c, f) : f \in 0..(TaskFrames - 1)}

InitTask ==
  /\ cfg \in TaskConfigs
  /\ store = InitStore(cfg)
  /\ workers = {}
  /\ started = {}
  /\ hist = InitHist
  /\ ue = InitUe

CanCall(tag) ==
  /\ tag \notin started
  /\ Cardinality(started) < MaxCalls
  /\ hist.aborted = {}

CallLaunch(tag) ==
  /\ cfg.variant = "agora"
  /\ CanCall(tag)
  /\ \E x \in {Launch(cfg, [w |-> Idle, s |-> store, h |-> hist], tag)} :
       IF x.w.pc = "aborted"
         THEN /\ hist' = [hist EXCEPT !.aborted = @ \cup {tag}]
              /\ store' = store
         ELSE /\ hist' = x.h
              /\ store' = x.s
  /\ started' = started \cup {tag}
  /\ UNCHANGED <<cfg, workers, ue>>

CallMillipede(tag) ==
  /\ cfg.variant = "millipede"
  /\ CanCall(tag)
  /\ \E x \in {MillipedeLaunch(cfg, [s |-> store, h |-> hist], tag)} :
       /\ hist' = x.h
       /\ store' = x.s
  /\ started' = started \cup {tag}
  /\ UNCHANGED <<cfg, workers>>
  /\ UNCHANGED ue

CallUeDoDemul(tag) ==
  /\ cfg.variant = "ue"
  /\ CanCall(tag)
  /\ \E y \in {UeDoDemul(cfg, [ue |-> ue, h |-> hist], tag)} :
       /\ hist' = y.h
       /\ ue' = y.ue
  /\ started' = started \cup {tag}
  /\ UNCHANGED <<cfg, workers, store>>

NextTask ==
  \/ \E tag \in TaskTags(cfg) : CallLaunch(tag)
  \/ \E tag \in TaskTags(cfg) : CallMillipede(tag)
  \/ \E tag \in TaskTags(cfg) : CallUeDoDemul(tag)

SpecTask == InitTask /\ [][NextTask]_vars

----------------------------------------------------------------------------
(* The phase model: the Demul tasks of one frame with three pilot symbols, *)
(* called one at a time in any order, so that a data-symbol task finds the *)
(* pilot accumulators complete, partly summed or still zero.               *)

PhaseConfigs ==
  {[BaseCfg EXCEPT !.kFrameWnd = w, !.BsAntNum = a, !.OfdmDataNum = 8,
                   !.ModOrderBits = kQaM16, !.ClientUlPilotSymbols = 3,
                   !.NumULSyms = 4] : w \in {1, 2}, a \in {2, 4}}

InitPhase ==
  /\ cfg \in PhaseConfigs
  /\ store = InitStore(cfg)
  /\ workers = {}
  /\ started = {}
  /\ hist = InitHist
  /\ ue = InitUe

PhaseCall(tag) ==
  /\ tag \notin started
  /\ Cardinality(started) < MaxPhaseCalls
  /\ \E x \in {Launch(cfg, [w |-> Idle, s |-> store, h |-> hist], tag)} :
       /\ hist' = x.h
       /\ store' = x.s
  /\ started' = started \cup {tag}
  /\ UNCHANGED <<cfg, workers, ue>>

NextPhase == \E tag \in FrameTags(cfg, 0) : PhaseCall(tag)

SpecPhase == InitPhase /\ [][NextPhase]_vars

----------------------------------------------------------------------------
(* UeWorker: Start, Stop and TaskThread.  A controlling thread starts and  *)
(* stops the worker; events arrive on the work queue; the running flag of  *)
(* the configuration is cleared from outside.  ue.thread_ is the id of the *)
(* thread the std::thread member stands for (0: not joinable), ue.threads  *)
(* the position of every thread that runs or ran TaskThread.  y is         *)
(* [ue, h].                                                                *)

\* The cases of the switch of TaskThread, and an event type it has no case for
HandledTypes ==
  {"kDecode", "kDemul", "kIFFT", "kEncode", "kModul", "kFFTPilot", "kFFT"}
EventTypes == HandledTypes \cup {"kZF"}

\* The tag of the events of the model: a downlink data symbol of frame 0
WorkTag(c) == FrmSymSc(0, c.dlStart + c.ClientDlPilotSymbols, 0)

\* RtAssert(notify_queue_.enqueue(*ptok_.get(), event), ...)
NotifyEnqueue(y, event) == [y EXCEPT !.ue.notify_queue = Append(@, event)]

\* gen_tag_t::FrmSymAnt / FrmSymUe of the fields of tag
CompletionTag(tag) == FrmSymSc(TagFrameId(tag), TagSymbolId(tag), TagScId(tag))

DoFftData(c, y, tag) == NotifyEnqueue(y, EventData("kFFT", CompletionTag(tag)))

\* A pilot handler that posts the event of the data handler
DoFftPilot_PostsFft(c, y, tag) ==
  NotifyEnqueue(y, EventData("kFFT", CompletionTag(tag)))

DoFftPilot(c, y, tag) == NotifyEnqueue(y, EventData("kFFTPilot", CompletionTag(tag)))

DoDecodeUe(c, y, tag) == NotifyEnqueue(y, EventData("kDecode", CompletionTag(tag)))

DoEncodeUe(c, y, tag) == NotifyEnqueue(y, EventData("kEncode", CompletionTag(tag)))

DoModul(c, y, tag) == NotifyEnqueue(y, EventData("kModul", tag))

DoIfft(c, y, tag) == NotifyEnqueue(y, EventData("kIFFT", CompletionTag(tag)))

\* switch (event.event_type_)
TaskSwitch(c, y, event) ==
  CASE event.event_type = "kDecode" -> DoDecodeUe(c, y, event.tag)
    [] event.event_type = "kDemul" -> UeDoDemul(c, y, event.tag)
    [] event.event_type = "kIFFT" -> DoIfft(c, y, event.tag)
    [] event.event_type = "kEncode" -> DoEncodeUe(c, y, event.tag)
    [] event.event_type = "kModul" -> DoModul(c, y, event.tag)
    [] event.event_type = "kFFTPilot" -> DoFftPilot(c, y, event.tag)
    [] event.event_type = "kFFT" -> DoFftData(c, y, event.tag)
    [] OTHER -> y

\* A loop that goes on until the work queue is drained
KeepsRunning_UntilQueueEmpty(y) == y.ue.running \/ y.ue.work_queue # <<>>

\* while (config_.Running() == true)
KeepsRunning(y) == y.ue.running

\* One step of thread t in TaskThread: the test of the loop, the dequeue
\* attempt, or the switch on the event in hand
TaskThread(c, y, t) ==
  LET th == y.ue.threads[t]
  IN CASE th.pc = "test" ->
            [y EXCEPT !.ue.threads[t].pc =
                         IF KeepsRunning(y) THEN "dequeue" ELSE "exited"]
       [] th.pc = "dequeue" ->
            IF y.ue.work_queue # <<>>
              THEN [y EXCEPT !.ue.threads[t] =
                                [pc |-> "switch", event |-> Head(y.ue.work_queue)],
                             !.ue.work_queue = Tail(@),
                             !.h.dequeued = Append(@, Head(y.ue.work_queue))]
              ELSE [y EXCEPT !.ue.threads[t].pc = "test"]
       [] th.pc = "switch" ->
            [TaskSwitch(c, y, th.event) EXCEPT !.ue.threads[t].pc = "test"]

UeWorkerConfigs ==
  {[BaseCfg EXCEPT !.variant = "ue", !.ModOrderBits = kQaM16, !.OfdmDataNum = 8]}

InitWorker ==
  /\ cfg \in UeWorkerConfigs
  /\ store = InitStore(cfg)
  /\ workers = {}
  /\ started = {}
  /\ hist = [llrWriters |-> <<>>, calls |-> <<>>, dequeued |-> <<>>,
             enqueued |-> 0, starts |-> 0, startThrew |-> 0, stopThrew |-> FALSE,
             joined |-> {}, joinSaw |-> {}, cleared |-> <<>>]
  /\ ue = [notify_queue |-> <<>>, demod_buffer |-> <<>>, work_queue |-> <<>>,
           running |-> TRUE, thread_ |-> 0, threads |-> <<>>, controller |-> "idle"]

\* A start that does not look at the thread it already has
Start_NoJoinableTest ==
  /\ ue.controller = "idle"
  /\ hist.starts < MaxStarts
  /\ LET t == Len(ue.threads) + 1
     IN ue' = [ue EXCEPT !.thread_ = t,
                         !.threads = Append(@, [pc |-> "test", event |-> <<>>])]
  /\ hist' = [hist EXCEPT !.starts = @ + 1]
  /\ UNCHANGED <<cfg, store, workers, started>>

\* UeWorker::Start
Start ==
  /\ ue.controller = "idle"
  /\ hist.starts < MaxStarts
  /\ IF ue.thread_ = 0
       THEN /\ LET t == Len(ue.threads) + 1
               IN ue' = [ue EXCEPT !.thread_ = t,
                                   !.threads = Append(@, [pc |-> "test",
                                                          event |-> <<>>])]
            /\ hist' = [hist EXCEPT !.starts = @ + 1]
       ELSE /\ ue' = ue
            /\ hist' = [hist EXCEPT !.starts = @ + 1, !.startThrew = @ + 1]
  /\ UNCHANGED <<cfg, store, workers, started>>

\* UeWorker::Stop up to the join: thread_.join() blocks while the thread
\* runs and throws std::system_error when there is no thread to join
Stop ==
  /\ ue.controller = "idle"
  /\ IF ue.thread_ = 0
       THEN /\ ue' = ue
            /\ hist' = [hist EXCEPT !.stopThrew = TRUE]
       ELSE /\ ue' = [ue EXCEPT !.controller = "joining"]
            /\ hist' = hist
  /\ UNCHANGED <<cfg, store, workers, started>>

\* thread_.join() returns: the thread has left TaskThread
StopReturns ==
  /\ ue.controller = "joining"
  /\ ue.threads[ue.thread_].pc = "exited"
  /\ ue' = [ue EXCEPT !.controller = "idle", !.thread_ = 0]
  /\ hist' = [hist EXCEPT !.joined = @ \cup {ue.thread_},
                          !.joinSaw = @ \cup {ue.running}]
  /\ UNCHANGED <<cfg, store, workers, started>>

\* The scheduler of the client puts an event on the work queue
WorkEnqueue(type) ==
  /\ hist.enqueued < MaxEvents
  /\ ue' = [ue EXCEPT !.work_queue = Append(@, EventData(type, WorkTag(cfg)))]
  /\ hist' = [hist EXCEPT !.enqueued = @ + 1]
  /\ UNCHANGED <<cfg, store, workers, started>>

\* The running flag of the configuration is cleared
ClearRunning ==
  /\ ue.running
  /\ ue' = [ue EXCEPT !.running = FALSE]
  /\ hist' = [hist EXCEPT !.cleared =
                 <<[dequeued |-> Len(hist.dequeued),
                    posted |-> Len(ue.notify_queue),
                    pcs |-> {ue.threads[t].pc : t \in DOMAIN ue.threads}]>>]
  /\ UNCHANGED <<cfg, store, workers, started>>

ThreadStep(t) ==
  /\ ue.threads[t].pc # "exited"
  /\ \E y \in {TaskThread(cfg, [ue |-> ue, h |-> hist], t)} :
       /\ ue' = y.ue
       /\ hist' = y.h
  /\ UNCHANGED <<cfg, store, workers, started>>

NextWorker ==
  \/ Start
  \/ Stop
  \/ StopReturns
  \/ \E type \in EventTypes : WorkEnqueue(type)
  \/ ClearRunning
  \/ \E t \in DOMAIN ue.threads : ThreadStep(t)

SpecWorker == InitWorker /\ [][NextWorker]_vars

----------------------------------------------------------------------------
(* The tag model: the scheduler packs (frame id, symbol id, base subcarrier *)
(* id) into a task identifier; Launch (Agora) and launch (Millipede) unpack *)
(* it.  Field values include the ends of the widths a 32-bit model integer  *)
(* can hold (the subcarrier field up to 2^15 - 1).                          *)

TagFrameIds == {0, 1, 65536, 2147483647}
TagSymbolIds == {0, 1, 8191, 65535}
TagScIds == {0, 8, 256, 32767}

InitTag ==
  /\ cfg = BaseCfg
  /\ store = InitStore(cfg)
  /\ workers = {}
  /\ started = {}
  /\ hist = InitHist
  /\ ue = InitUe

\* The scheduler packs the fields; the entry of Launch / launch unpacks them
PackAndDecode(f, sy, sc) ==
  /\ <<f, sy, sc>> \notin started
  /\ Cardinality(started) < MaxTags
  /\ LET tag == FrmSymSc(f, sy, sc)
         info == AgoraInfo(cfg, tag)
     IN hist' = [hist EXCEPT !.calls =
                   (<<f, sy, sc>> :>
                      [variant |-> "tag", tag |-> tag,
                       agora |-> <<info.frame_id, info.symbol_id, info.base_sc_id>>,
                       millipede |-> <<TagFrameId(tag), TagSymbolId(tag),
                                       TagScId(tag)>>]) @@ @]
  /\ started' = started \cup {<<f, sy, sc>>}
  /\ UNCHANGED <<cfg, store, workers, ue>>

NextTag ==
  \E f \in TagFrameIds : \E sy \in TagSymbolIds : \E sc \in TagScIds :
    PackAndDecode(f, sy, sc)

SpecTag == InitTag /\ [][NextTag]_vars

----------------------------------------------------------------------------
(* Properties of the pilot-phase accumulator                               *)

\* The part of an accumulator slot that belongs to pilot symbol p
PilotPart(acc, p) == [u \in 0..(cfg.UeNum - 1) |-> acc[p * cfg.UeNum + u]]

SymbolTags(f, sy) == {FrmSymSc(f, cfg.ulStart + sy, b) : b \in BlockBases(cfg)}

\* No reset performed so far was aimed at the slot of frame f
SlotNotReset(f) ==
  \A g \in hist.resetDone : PrevFrameSlot(cfg, g) # f % cfg.kFrameWnd

\* C1: once every block task of a pilot symbol has returned (the blocks may
\* have run concurrently on different workers, and no reset touched the slot),
\* the accumulator of that symbol equals the sum of every subcarrier's sign
\* contribution: no contribution is lost.
C1_NoLostContribution ==
  \A f \in 0..(ConcFrames - 1) : \A p \in 0..(cfg.ClientUlPilotSymbols - 1) :
    (SymbolTags(f, p) \subseteq Done /\ SlotNotReset(f))
      => PilotPart(store.ue_spec_pilot_buffer[f % cfg.kFrameWnd], p)
           = PilotPart(FullAcc(cfg, f), p)

\* C2: in every interleaving of the pilot tasks of a frame N, no block task
\* (whichever subcarriers it holds) adds a contribution of frame N to an
\* accumulator before the reset carried by frame N has zeroed the previous
\* frame's slot.
C2_ResetPrecedesContribution ==
  hist.early = {}

\* C3: with frames processed in order through a ring of kFrameWnd slots, once
\* all pilot tasks of frame N have finished (and frame N+1 has not begun),
\* slot N mod kFrameWnd holds exactly the pilot sums of frame N.
C3_SlotHoldsOnlyFrameSums ==
  \A f \in 0..(MaxFrames - 1) :
    (PilotTags(cfg, f) \subseteq Done /\ ResetTag(cfg, f + 1) \notin started)
      => store.ue_spec_pilot_buffer[f % cfg.kFrameWnd] = FullAcc(cfg, f)

\* C3 witness: a slot used a second time, by a frame whose sums differ from
\* those of the frame that used it before
C3_Witness ==
  \E f \in 0..(MaxFrames - 1) :
    /\ f >= cfg.kFrameWnd
    /\ PilotTags(cfg, f) \subseteq Done
    /\ ResetTag(cfg, f + 1) \notin started
    /\ FullAcc(cfg, f) # FullAcc(cfg, f - cfg.kFrameWnd)
    /\ \E idx \in DOMAIN FullAcc(cfg, f) : FullAcc(cfg, f)[idx] # CZero
    /\ store.ue_spec_pilot_buffer[f % cfg.kFrameWnd] = FullAcc(cfg, f)

\* C4: when the only order enforced is reset-before-accumulation (the other
\* pilot tasks of a frame start after its reset-bearing task returned), then
\* under every interleaving of the remaining tasks of the frames in flight
\* every data-symbol task derives its correction from the complete pilot
\* sums of its frame, never from partial or zeroed sums.
C4_DataSeesCompleteSums ==
  hist.resetOrdered => hist.badRead = {}

----------------------------------------------------------------------------
(* Properties of one call                                                  *)

ModSupported(c) == c.ModOrderBits \in {kQpsk, kQaM16, kQaM64}

\* The completion events a call on tag has produced: the value returned by
\* Launch/launch, the entries put on the notify queue by UeWorker::DoDemul
EventsFor(tag) ==
  (IF tag \in Done /\ cfg.variant # "ue" THEN {hist.calls[tag].ret} ELSE {})
    \cup {ue.notify_queue[i] : i \in {n \in 1..Len(ue.notify_queue) :
                                        ue.notify_queue[n].tag = tag}}

\* The bytes [M*base_sc, M*(base_sc + min(B, N - base_sc))) of every UE's LLR
\* buffer for the (frame slot, symbol) of tag, as addresses of the buffer
OwnedBytes(c, tag) ==
  LET M == c.ModOrderBits
      base == TagScId(tag)
      rng == (M * base)..(M * (base + MaxScIte(c, base)) - 1)
  IN IF c.variant = "agora"
       THEN {<<TagFrameId(tag) % c.kFrameWnd, GetULSymbolIdx(c, TagSymbolId(tag)), u, n>> :
               u \in 0..(c.UeNum - 1), n \in rng}
       ELSE {<<GetTotalDataSymbolIdxUl(c, TagFrameId(tag), TagSymbolId(tag)),
               c.OfdmDataNum * u * M + n>> : u \in 0..(c.UeNum - 1), n \in rng}

\* C5: a Demul task writes only the LLR bytes [M*base_sc, M*(base_sc +
\* min(B, N - base_sc))) of each UE's buffer for its (frame slot, symbol), so
\* no LLR byte is written by two tasks with different (slot, symbol, base)
\* (Agora and Millipede).
C5_DisjointLlrRanges ==
  cfg.variant \in {"agora", "millipede"} =>
    /\ \A tag \in Done : hist.calls[tag].wrote \subseteq OwnedBytes(cfg, tag)
    /\ \A a \in DOMAIN hist.llrWriters : Cardinality(hist.llrWriters[a]) <= 1

\* C6: with a modulation order outside QPSK / 16-QAM / 64-QAM a call does not
\* complete normally and hands no Demul completion event downstream
\* (DoDemul::Launch and UeWorker::DoDemul).
C6_UnsupportedHalts ==
  (cfg.variant \in {"agora", "ue"} /\ ~ModSupported(cfg)) =>
    \A tag \in started : tag \notin Done /\ EventsFor(tag) = {}

\* C7: with an unsupported modulation order the call proceeds: it writes no
\* byte of any LLR buffer (the buffers keep their prior content) and still
\* produces its Demul completion event.
C7_UnsupportedWritesNothing ==
  (cfg.variant \in {"agora", "ue"} /\ ~ModSupported(cfg)) =>
    /\ \A tag \in started :
         /\ tag \in Done
         /\ hist.calls[tag].wrote = {}
         /\ EventsFor(tag) = {[event_type |-> "kDemul", tag |-> tag]}
    /\ store.demod_buffers = InitStore(cfg).demod_buffers
    /\ ue.demod_buffer = InitUe.demod_buffer

\* C7 witness: two calls made under an unsupported modulation order
C7_Witness ==
  /\ ~ModSupported(cfg)
  /\ cfg.variant \in {"agora", "ue"}
  /\ Cardinality(Done) >= 2

\* C8: every call that returns produces exactly one completion event, of
\* type Demul, whose tag is the input tag: the value Launch/launch returns,
\* the single entry UeWorker::DoDemul puts on the notify queue.
C8_EventCarriesTag ==
  /\ \A tag \in Done : EventsFor(tag) = {[event_type |-> "kDemul", tag |-> tag]}
  /\ cfg.variant = "ue" => Len(ue.notify_queue) = Cardinality(Done)
  /\ cfg.variant # "ue" => ue.notify_queue = <<>>

\* C8 witness: calls on two tags that differ in every field have returned
C8_Witness ==
  \E t1 \in Done : \E t2 \in Done :
    /\ TagFrameId(t1) # TagFrameId(t2)
    /\ TagScId(t1) # TagScId(t2)
    /\ TagScId(t2) # 0

\* The product the specification gives for (subcarrier sc, UE u) of the
\* symbol of tag: the sum over antennas of M[slot][sc][u][a] * x[a][sc]
ExpectedEqualized(c, tag, sc, u) ==
  LET f == TagFrameId(tag)
      symul == IF c.variant = "agora" THEN GetULSymbolIdx(c, TagSymbolId(tag))
                                      ELSE TagSymbolId(tag)
  IN CSumTo([a \in 0..(c.BsAntNum - 1) |->
               CMul(ZfValue(c, f % c.kFrameWnd, sc, u + a * c.UeNum),
                    RxSample(c, f, symul, a, sc))], c.BsAntNum)

\* C9: for every subcarrier s of a task and every UE u the equalized value is
\* the sum over antennas a of M[frame_id mod W][s][u][a] * x[a][s], and the
\* JIT multiply and the direct matrix product agree on the same inputs.
C9_EqualizedIsMatrixProduct ==
  cfg.variant \in {"agora", "millipede"} =>
    \A tag \in Done :
      \A p \in DOMAIN hist.calls[tag].eqlog :
        p[1] < TagScId(tag) + MaxScIte(cfg, TagScId(tag)) =>
          /\ hist.calls[tag].eqlog[p] = ExpectedEqualized(cfg, tag, p[1], p[2])
          /\ LET zf == [idx \in 0..(cfg.UeNum * cfg.BsAntNum - 1) |->
                          ZfValue(cfg, TagFrameId(tag) % cfg.kFrameWnd, p[1], idx)]
                 x == [a \in 0..(cfg.BsAntNum - 1) |->
                         RxSample(cfg, TagFrameId(tag), 0, a, p[1])]
             IN JitCgemm(cfg, zf, x) = ArmaMatVec(cfg, zf, x)

\* The first LLR byte of UE u owned by the task of tag
StartAddr(c, tag, u) ==
  IF c.variant = "agora"
    THEN <<TagFrameId(tag) % c.kFrameWnd, GetULSymbolIdx(c, TagSymbolId(tag)), u,
           c.ModOrderBits * TagScId(tag)>>
    ELSE <<GetTotalDataSymbolIdxUl(c, TagFrameId(tag), TagSymbolId(tag)),
           c.OfdmDataNum * u * c.ModOrderBits + c.ModOrderBits * TagScId(tag)>>

\* C10: the k-th value handed to the soft-demodulation kernel for UE u is the
\* equalized (and, where it applies, phase-corrected) value of subcarrier
\* base_sc + k for UE u, the output starts at byte M*base_sc of the UE's
\* buffer, and with 4 antennas, 2 UEs, 16 subcarriers, blocks of 8 and no
\* pilot symbol the two tasks of a symbol fill each UE's LLR sequence in
\* subcarrier order.
C10_KernelInputInSubcarrierOrder ==
  (cfg.variant \in {"agora", "millipede"} /\ ModSupported(cfg) /\ cfg.useLdpc) =>
    /\ \A tag \in Done :
         \A u \in 0..(cfg.UeNum - 1) :
           /\ \A k \in 0..(MaxScIte(cfg, TagScId(tag)) - 1) :
                hist.calls[tag].din[u][k]
                  = hist.calls[tag].outlog[<<TagScId(tag) + k, u>>]
           /\ StartAddr(cfg, tag, u) \in hist.calls[tag].wrote
    /\ (/\ cfg.variant = "agora" /\ cfg.BsAntNum = 4 /\ cfg.UeNum = 2
        /\ cfg.OfdmDataNum = 16 /\ cfg.DemulBlockSize = 8
        /\ cfg.ClientUlPilotSymbols = 0) =>
         \A f \in 0..(TaskFrames - 1) :
           FrameTags(cfg, f) \subseteq Done =>
             \A u \in 0..(cfg.UeNum - 1) :
               \A n \in 0..(cfg.ModOrderBits * cfg.OfdmDataNum - 1) :
                 store.demod_buffers[<<f % cfg.kFrameWnd, 0, u, n>>]
                   = Llr(cfg.ModOrderBits,
                         ExpectedEqualized(cfg, ResetTag(cfg, f),
                                           n \div cfg.ModOrderBits, u),
                         n % cfg.ModOrderBits)

----------------------------------------------------------------------------
(* Properties of the stages of DoDemul::Launch                             *)

\* The tag of the call the step from the current state to the next one makes
NewCalls == DOMAIN hist'.calls \ DOMAIN hist.calls

\* The same build with the other setting of kExportConstellation
ExportFlipped(c) == [c EXCEPT !.kExportConstellation = ~@]

\* C11: a Launch call hands the kernels the same input for every (subcarrier,
\* UE) of its block, writes the same LLR bytes and leaves the same pilot sums
\* whether the equalized symbols go to the export buffer equal_buffer_ or to
\* the scratch buffer equaled_buffer_temp_: the call made with the other
\* setting of the flag on the same inputs gives the same result.
C11_ExportFlagSameDemodInput ==
  [][\A tag \in NewCalls :
       cfg.variant = "agora" =>
         LET o == Launch(ExportFlipped(cfg), [w |-> Idle, s |-> store, h |-> hist], tag)
         IN /\ o.h.calls[tag].din = hist'.calls[tag].din
            /\ o.h.calls[tag].wrote = hist'.calls[tag].wrote
            /\ o.s.demod_buffers = store'.demod_buffers
            /\ o.s.ue_spec_pilot_buffer = store'.ue_spec_pilot_buffer]_vars

\* C11 witness: an export build has demodulated a block that does not start at
\* subcarrier 0, and the kernel of each UE got the equalized values
C11_Witness ==
  /\ cfg.variant = "agora" /\ cfg.kExportConstellation /\ ModSupported(cfg)
  /\ \E tag \in Done :
       /\ TagScId(tag) > 0
       /\ hist.calls[tag].wrote # {}
       /\ \A u \in 0..(cfg.UeNum - 1) :
            /\ hist.calls[tag].din[u][0] = hist.calls[tag].outlog[<<TagScId(tag), u>>]
            /\ hist.calls[tag].din[u][0] # cfg.garbage

\* The store with every pilot-phase accumulator entry a frame could have set
\* to a value that turns a correction into a quarter turn
PoisonedAcc(c, st) ==
  [st EXCEPT !.ue_spec_pilot_buffer =
     [slot \in 0..(c.kFrameWnd - 1) |->
        [idx \in 0..(c.UeNum * MaxPilots - 1) |-> <<0, 1>>]]]

\* C12: with no pilot symbol configured a Launch call skips phase tracking: it
\* leaves every accumulator entry of every frame slot as it was, its results
\* do not depend on what the accumulators hold (it reads none of them), and
\* the values handed to the kernels are exactly the equalized values.
C12_NoPilotsSkipsPhaseTracking ==
  [][\A tag \in NewCalls :
       (cfg.variant = "agora" /\ cfg.ClientUlPilotSymbols = 0) =>
         LET p == PoisonedAcc(cfg, store)
             o == Launch(cfg, [w |-> Idle, s |-> p, h |-> hist], tag)
             r == hist'.calls[tag]
         IN /\ store'.ue_spec_pilot_buffer = store.ue_spec_pilot_buffer
            /\ o.s.ue_spec_pilot_buffer = p.ue_spec_pilot_buffer
            /\ o.h.calls[tag] = r
            /\ o.s.demod_buffers = store'.demod_buffers
            /\ r.outlog = r.eqlog
            /\ \A u \in 0..(cfg.UeNum - 1) :
                 \A k \in 0..(MaxScIte(cfg, TagScId(tag)) - 1) :
                   r.din[u][k] = r.eqlog[<<TagScId(tag) + k, u>>]]_vars

\* C12 witness: both blocks of a symbol demodulated with no pilot symbol
\* configured, the accumulators still as allocated
C12_Witness ==
  /\ cfg.variant = "agora" /\ cfg.ClientUlPilotSymbols = 0 /\ ModSupported(cfg)
  /\ Cardinality(Done) >= 2
  /\ \A tag \in Done : hist.calls[tag].wrote # {}
  /\ store.ue_spec_pilot_buffer = InitStore(cfg).ue_spec_pilot_buffer

----------------------------------------------------------------------------
(* Properties of the phase tracker                                         *)

\* A Launch call on tag takes the correction branch
IsCorrectionCall(tag) ==
  /\ cfg.variant = "agora"
  /\ PhaseBranch(cfg, GetULSymbolIdx(cfg, TagSymbolId(tag))) = "correct"

\* The accumulators of the frame slot of tag as the call finds them
AccOf(tag) == store.ue_spec_pilot_buffer[TagFrameId(tag) % cfg.kFrameWnd]

\* C13 as stated: in the correction phase, whenever the average phase increment
\* derived from the pilot accumulators is zero, the corrected equalized symbols
\* equal the uncorrected ones exactly, for every UE and subcarrier.
C13_ZeroIncrementIsIdentity ==
  [][\A tag \in NewCalls :
       (/\ IsCorrectionCall(tag)
        /\ \A u \in 0..(cfg.UeNum - 1) : ThetaInc(cfg, AccOf(tag), u) = 0) =>
         hist'.calls[tag].outlog = hist'.calls[tag].eqlog]_vars

\* C13 amended: in the correction phase, whenever the average phase increment of
\* a UE is zero, the corrected symbols of that UE are the uncorrected ones
\* rotated by minus theta[0], the angle of the UE's first pilot accumulator;
\* they equal the uncorrected symbols when theta[0] is zero as well.
C13_ZeroIncrementRotatesByTheta0 ==
  [][\A tag \in NewCalls :
       IsCorrectionCall(tag) =>
         \A u \in 0..(cfg.UeNum - 1) :
           ThetaInc(cfg, AccOf(tag), u) = 0 =>
             \A p \in DOMAIN hist'.calls[tag].outlog :
               p[2] = u =>
                 /\ hist'.calls[tag].outlog[p]
                      = CMul(hist'.calls[tag].eqlog[p],
                             CExp(-Theta(cfg, AccOf(tag), u, 0)))
                 /\ Theta(cfg, AccOf(tag), u, 0) = 0 =>
                      hist'.calls[tag].outlog[p] = hist'.calls[tag].eqlog[p]]_vars

\* C13 witness: a data-symbol task has returned whose correction, derived from
\* the complete sums of a single pilot symbol (zero increment), turned the
\* symbols of one UE by half a turn and left those of another as they were
C13_Witness ==
  /\ cfg.variant = "agora" /\ cfg.ClientUlPilotSymbols = 1
  /\ \E tag \in Done :
       /\ GetULSymbolIdx(cfg, TagSymbolId(tag)) >= cfg.ClientUlPilotSymbols
       /\ PilotTags(cfg, TagFrameId(tag)) \subseteq Done
       /\ \E p \in DOMAIN hist.calls[tag].outlog :
            /\ hist.calls[tag].outlog[p] = CScale(-1, hist.calls[tag].eqlog[p])
            /\ hist.calls[tag].outlog[p] # hist.calls[tag].eqlog[p]
       /\ \E q \in DOMAIN hist.calls[tag].outlog :
            /\ hist.calls[tag].outlog[q] = hist.calls[tag].eqlog[q]
            /\ hist.calls[tag].eqlog[q] # CZero

\* C14: with exactly one pilot symbol the average phase increment is zero, so
\* for every data symbol index the correction angle is theta[0], the angle of
\* the single pilot accumulator, whatever the symbol index; the call completes
\* normally and returns its event.
C14_OnePilotCorrectsByTheta0 ==
  [][\A tag \in started' \ started :
       (IsCorrectionCall(tag) /\ cfg.ClientUlPilotSymbols = 1) =>
         /\ tag \in NewCalls
         /\ hist'.aborted = {}
         /\ hist'.calls[tag].ret = [event_type |-> "kDemul", tag |-> tag]
         /\ \A u \in 0..(cfg.UeNum - 1) :
              /\ ThetaInc(cfg, AccOf(tag), u) = 0
              /\ CurTheta(cfg, AccOf(tag), u, GetULSymbolIdx(cfg, TagSymbolId(tag)))
                   = Theta(cfg, AccOf(tag), u, 0)
              /\ \A p \in DOMAIN hist'.calls[tag].outlog :
                   p[2] = u =>
                     hist'.calls[tag].outlog[p]
                       = CMul(hist'.calls[tag].eqlog[p],
                              CExp(-Theta(cfg, AccOf(tag), u, 0)))]_vars

\* C14 witness: with one pilot symbol, the task of the second data symbol has
\* returned after the pilot task, its correction a half turn for some UE
C14_Witness ==
  /\ cfg.variant = "agora" /\ cfg.ClientUlPilotSymbols = 1
  /\ \E tag \in Done :
       /\ GetULSymbolIdx(cfg, TagSymbolId(tag)) = 2
       /\ PilotTags(cfg, TagFrameId(tag)) \subseteq Done
       /\ hist.calls[tag].ret = [event_type |-> "kDemul", tag |-> tag]
       /\ \E p \in DOMAIN hist.calls[tag].outlog :
            /\ hist.calls[tag].outlog[p] = CScale(-1, hist.calls[tag].eqlog[p])
            /\ hist.calls[tag].eqlog[p] # CZero

----------------------------------------------------------------------------
(* Properties of the task identifier                                       *)

----------------------------------------------------------------------------
(* Properties of the gather and of the block a call covers                 *)

\* First subcarriers of the cache-line groups the call on tag gathers
GroupStarts(c, tag) ==
  {TagScId(tag) + i : i \in {k \in 0..(LoopScCount(MaxScIte(c, TagScId(tag))) - 1) :
                               k % kSCsPerCacheline = 0}}

\* The gather buffer after step 1 of the group starting at s0
GatherOf(c, tag, s0) ==
  IF c.variant = "agora"
    THEN AgoraGather(c, TagFrameId(tag), GetULSymbolIdx(c, TagSymbolId(tag)), s0)
    ELSE MillipedeGather(c, TagFrameId(tag), TagSymbolId(tag), s0)

\* The input sample of antenna a at subcarrier sc of the symbol of tag
SampleOf(c, tag, a, sc) ==
  RxSample(c, TagFrameId(tag),
           IF c.variant = "agora" THEN GetULSymbolIdx(c, TagSymbolId(tag))
                                  ELSE TagSymbolId(tag),
           a, sc)

\* C16: after the gather of the cache-line group starting at s0, entry
\* [j*A + a] of the gather buffer is the input sample of antenna a at
\* subcarrier s0 + j, for every row j and antenna a, on the 4-wide path, the
\* 8-wide path and the scalar path.
C16_GatherHoldsSamples ==
  cfg.variant \in {"agora", "millipede"} =>
    \A tag \in Done :
      \A s0 \in GroupStarts(cfg, tag) :
        \A j \in 0..(kSCsPerCacheline - 1) : \A a \in 0..(cfg.BsAntNum - 1) :
          s0 + j < cfg.OfdmDataNum =>
            GatherOf(cfg, tag, s0)[j * cfg.BsAntNum + a] = SampleOf(cfg, tag, a, s0 + j)

\* The subcarriers [base_sc, base_sc + min(B, N - base_sc)) of the task of tag
BlockOf(c, tag) ==
  {sc \in 0..(c.OfdmDataNum + c.DemulBlockSize) :
     /\ sc >= TagScId(tag)
     /\ sc < TagScId(tag) + Min(c.DemulBlockSize, c.OfdmDataNum - TagScId(tag))}

\* C17: a Launch / launch call that returns has equalized exactly the
\* subcarriers [base_sc, base_sc + min(B, N - base_sc)) and handed as many
\* values per UE to the kernel as it equalized subcarriers; it touches no
\* subcarrier index >= N (Agora and Millipede).
C17_CallCoversExactlyItsBlock ==
  (cfg.variant \in {"agora", "millipede"} /\ ModSupported(cfg)) =>
    \A tag \in Done :
      LET eqd == {p[1] : p \in DOMAIN hist.calls[tag].eqlog}
      IN /\ eqd = BlockOf(cfg, tag)
         /\ \A sc \in eqd : sc < cfg.OfdmDataNum
         /\ cfg.useLdpc =>
              \A u \in 0..(cfg.UeNum - 1) :
                Cardinality(DOMAIN hist.calls[tag].din[u]) = Cardinality(eqd)

\* C18: in every configuration whose block size is a multiple of the
\* cache-line subcarrier width, the alignment assertion of Launch holds for
\* every task of a symbol, the last block included: no call fails it.
C18_AlignmentAssertionHolds ==
  (cfg.variant = "agora" /\ cfg.DemulBlockSize % kSCsPerCacheline = 0) =>
    /\ hist.aborted = {}
    /\ \A tag \in started : MaxScIte(cfg, TagScId(tag)) % kSCsPerCacheline = 0

\* C19: every subcarrier of a cache-line group a call gathers lies in the
\* partial-transpose block of the group's first subcarrier, so the block base
\* computed from the first subcarrier is the base of each of them; a debug
\* build lets a call through only if the cache-line width divides both the
\* block size and the transpose-block size (the precondition is asserted).
C19_GroupInOneTransposeBlock ==
  (cfg.variant \in {"agora", "millipede"} /\ cfg.kUsePartialTrans) =>
    \A tag \in Done :
      /\ ~cfg.ndebug =>
           /\ cfg.DemulBlockSize % kSCsPerCacheline = 0
           /\ cfg.kTransposeBlockSize % kSCsPerCacheline = 0
      /\ \A s0 \in GroupStarts(cfg, tag) : \A j \in 0..(kSCsPerCacheline - 1) :
           PartialTransposeBlockBase(cfg, s0 + j) = PartialTransposeBlockBase(cfg, s0)

\* The accumulator entries <<slot, index>> whose value the step changes
AccChanged ==
  {e \in UNION {{<<slot, idx>> : idx \in DOMAIN store.ue_spec_pilot_buffer[slot]} :
                 slot \in DOMAIN store.ue_spec_pilot_buffer} :
     store'.ue_spec_pilot_buffer[e[1]][e[2]] # store.ue_spec_pilot_buffer[e[1]][e[2]]}

\* The entries a task of frame f and uplink symbol index symul on the block at
\* base may change: those of (f mod W, all UEs, symul), and those of the
\* previous frame's slot if it processes subcarrier 0 of symbol index 0
AccFrame(c, f, symul, base) ==
  {<<f % c.kFrameWnd, symul * c.UeNum + u>> : u \in 0..(c.UeNum - 1)}
    \cup (IF symul = 0 /\ base = 0
           THEN {<<(f + c.kFrameWnd - 1) % c.kFrameWnd, idx>> :
                   idx \in 0..(c.UeNum * c.ClientUlPilotSymbols - 1)}
           ELSE {})

\* C20: a call in the correction phase changes no accumulator entry of any
\* frame slot; a call in the accumulation phase of pilot index p changes only
\* the entries (frame_id mod W, all UEs, p) and, when it processes subcarrier
\* 0 of symbol index 0, the entries of the previous frame's slot.
C20_AccumulatorFrame ==
  [][\A tag \in NewCalls :
       cfg.variant = "agora" =>
         LET symul == GetULSymbolIdx(cfg, TagSymbolId(tag))
         IN /\ PhaseBranch(cfg, symul) = "correct" => AccChanged = {}
            /\ PhaseBranch(cfg, symul) = "accumulate" =>
                 AccChanged \subseteq AccFrame(cfg, TagFrameId(tag), symul,
                                              TagScId(tag))]_vars

----------------------------------------------------------------------------
(* Properties of the average phase increment                               *)

\* The angle of the accumulator of UE u and pilot index sy, as a call on tag
\* finds it
AngleOf(tag, u, sy) == CArg(AccOf(tag)[sy * cfg.UeNum + u])

\* The telescoped sum of the angle differences over max(1, P - 1)
MeanIncrement(tag, u) ==
  LET P == cfg.ClientUlPilotSymbols
  IN ExactDiv(AngleOf(tag, u, P - 1) - AngleOf(tag, u, 0), Max(1, P - 1))

\* C21: in the correction phase the average increment of a UE is the sum of
\* the successive angle differences theta[s] - theta[s-1], s = 1..P-1, which
\* is theta[P-1] - theta[0], divided by max(1, P-1); the symbols of the UE are
\* rotated by minus (theta[0] + symbol_idx * average increment), symbol_idx
\* being the uplink symbol index counted from the first pilot symbol.
C21_MeanIncrementRotation ==
  [][\A tag \in NewCalls :
       IsCorrectionCall(tag) =>
         \A u \in 0..(cfg.UeNum - 1) :
           LET P == cfg.ClientUlPilotSymbols
               symbol_idx == TagSymbolId(tag) - cfg.ulStart
               diffs == [d \in 0..(P - 2) |->
                           AngleOf(tag, u, d + 1) - AngleOf(tag, u, d)]
           IN /\ SumTo(diffs, P - 1) = AngleOf(tag, u, P - 1) - AngleOf(tag, u, 0)
              /\ \A p \in DOMAIN hist'.calls[tag].outlog :
                   p[2] = u =>
                     hist'.calls[tag].outlog[p]
                       = CMul(hist'.calls[tag].eqlog[p],
                              CExp(-(AngleOf(tag, u, 0)
                                       + symbol_idx * MeanIncrement(tag, u))))]_vars

\* C21 witness: with three pilot symbols a data-symbol task has returned that
\* found, for one UE, two non-zero angle differences that cancel, and for
\* another a non-zero average increment that turned its symbols by a quarter
\* turn
C21_Witness ==
  /\ cfg.variant = "agora" /\ cfg.ClientUlPilotSymbols = 3
  /\ \E tag \in Done :
       /\ IsCorrectionCall(tag)
       /\ \E u \in 0..(cfg.UeNum - 1) :
            /\ AngleOf(tag, u, 1) # AngleOf(tag, u, 0)
            /\ AngleOf(tag, u, 2) # AngleOf(tag, u, 1)
            /\ MeanIncrement(tag, u) = 0
       /\ \E u \in 0..(cfg.UeNum - 1) :
            /\ MeanIncrement(tag, u) # 0
            /\ \E p \in DOMAIN hist.calls[tag].outlog :
                 /\ p[2] = u
                 /\ hist.calls[tag].eqlog[p] # CZero
                 /\ hist.calls[tag].outlog[p]
                      = CMul(hist.calls[tag].eqlog[p],
                             CExp(-(AngleOf(tag, u, 0) + 3 * MeanIncrement(tag, u))))
                 /\ hist.calls[tag].outlog[p] # hist.calls[tag].eqlog[p]
                 /\ hist.calls[tag].outlog[p] # CScale(-1, hist.calls[tag].eqlog[p])

----------------------------------------------------------------------------
(* Properties of the kernel dispatch                                       *)

\* The LLR buffer the variant's kernels write
LlrBuffer ==
  CASE cfg.variant = "agora" -> store.demod_buffers
    [] cfg.variant = "millipede" -> store.demod_soft_buffer
    [] cfg.variant = "ue" -> ue.demod_buffer

\* The LLR bytes of a call on tag when offset and count are taken with the
\* configured modulation order M: M bytes per subcarrier, from M * base
LlrBytesFor(c, tag) ==
  IF c.variant = "ue"
    THEN {<<TagFrameId(tag) % c.kFrameWnd, GetDLSymbolIdx(c, TagSymbolId(tag)),
            TagScId(tag), n>> : n \in 0..(c.ModOrderBits * c.OfdmDataNum - 1)}
    ELSE OwnedBytes(c, tag)

\* C22: in every pipeline variant (Agora, Millipede, UE worker) the soft-
\* demodulation kernel that runs is the one of the configured modulation
\* order (QPSK, 16-QAM or 64-QAM), and the LLR byte offset and byte count
\* are those of the same modulation order.
C22_KernelMatchesModOrder ==
  (ModSupported(cfg) /\ cfg.useLdpc) =>
    \A tag \in Done :
      /\ hist.calls[tag].wrote = LlrBytesFor(cfg, tag)
      /\ \A a \in hist.calls[tag].wrote : LlrBuffer[a][1] = cfg.ModOrderBits

----------------------------------------------------------------------------
(* Properties of the reset slot                                            *)

\* C23: for every frame id, frame id 0 included (where frame_id - 1 wraps
\* around in unsigned 64-bit arithmetic), the slot zeroed by the reset of the
\* symbol-0 task is a valid index in [0, W) and is the slot of the preceding
\* frame, (frame_id + W - 1) mod W; whenever W > 1 it is not the slot
\* frame_id mod W the frame accumulates into.
C23_ResetSlotIsPreviousFrames ==
  cfg.variant = "agora" =>
    \A f \in hist.resetDone :
      /\ PrevFrameSlot(cfg, f) \in 0..(cfg.kFrameWnd - 1)
      /\ PrevFrameSlot(cfg, f) = (f + cfg.kFrameWnd - 1) % cfg.kFrameWnd
      /\ cfg.kFrameWnd > 1 => PrevFrameSlot(cfg, f) # f % cfg.kFrameWnd

----------------------------------------------------------------------------
(* Properties of the UE worker thread                                      *)

\* The threads that are inside TaskThread
LiveThreads == {t \in DOMAIN ue.threads : ue.threads[t].pc # "exited"}

\* The events dequeued whose case of the switch has been left
Switched ==
  IF \E t \in DOMAIN ue.threads : ue.threads[t].pc = "switch"
    THEN SubSeq(hist.dequeued, 1, Len(hist.dequeued) - 1)
    ELSE hist.dequeued

IsSupported(e) ==
  e.event_type \in {"kDecode", "kDemul", "kIFFT", "kEncode", "kModul",
                    "kFFTPilot", "kFFT"}

\* C24: in the worker loop every event dequeued with a supported type
\* (Decode, Demul, IFFT, Encode, Modul, FFTPilot, FFT) leads to exactly one
\* completion event of the same type on the notify queue before the next
\* event is dequeued; an event of any other type enqueues nothing and the
\* worker keeps running.
C24_OneCompletionPerEvent ==
  LET supported == SelectSeq(Switched, IsSupported)
  IN /\ Len(ue.notify_queue) = Len(supported)
     /\ \A i \in 1..Len(supported) :
          ue.notify_queue[i].event_type = supported[i].event_type
     /\ \A t \in DOMAIN ue.threads :
          ue.threads[t].pc = "exited" => ~ue.running

\* C24 witness: the worker has handled an event without a case and then a
\* pilot FFT event, has posted one kFFTPilot event, and is still running
C24_Witness ==
  /\ Len(hist.dequeued) = 2
  /\ hist.dequeued[1].event_type = "kZF"
  /\ hist.dequeued[2].event_type = "kFFTPilot"
  /\ Len(ue.notify_queue) = 1
  /\ ue.notify_queue[1].event_type = "kFFTPilot"
  /\ ue.running
  /\ \E t \in LiveThreads : ue.threads[t].pc = "test"

\* C25: a UeWorker has at most one task thread at any time: Start called
\* while a started thread has not yet been joined by Stop throws a runtime
\* error and creates no second thread, and Start succeeds again only after
\* Stop has joined the previous thread.
C25_AtMostOneTaskThread ==
  [][/\ Cardinality(LiveThreads') <= 1
     /\ hist'.starts # hist.starts =>
          IF DOMAIN ue.threads \subseteq hist.joined
            THEN /\ hist'.startThrew = hist.startThrew
                 /\ Len(ue'.threads) = Len(ue.threads) + 1
            ELSE /\ hist'.startThrew = hist.startThrew + 1
                 /\ ue'.threads = ue.threads]_vars

\* C25 witness: a Start has thrown while the first thread was not joined,
\* Stop has joined that thread, and a later Start has created a second one
C25_Witness ==
  /\ hist.startThrew = 1
  /\ hist.joined = {1}
  /\ Len(ue.threads) = 2
  /\ ue.thread_ = 2

\* The events dequeued since the running flag was cleared
DequeuedSinceCleared == Len(hist.dequeued) - hist.cleared[1].dequeued

\* What holds of every exit whatever the queue holds: a thread has left
\* TaskThread, and a join has returned, only with the flag cleared
ExitsOnlyWhenCleared ==
  /\ \A t \in DOMAIN ue.threads : ue.threads[t].pc = "exited" => ~ue.running
  /\ hist.joinSaw \subseteq {FALSE}

\* C26 as stated: the worker thread exits, and Stop returns, only after the
\* running flag has become false; once the flag is false the thread exits
\* after finishing at most the task it is executing, and the events still in
\* the work queue at that point are never processed and produce no
\* completion event.
C26_QueuedEventsNeverProcessed ==
  /\ ExitsOnlyWhenCleared
  /\ hist.cleared # <<>> =>
       /\ DequeuedSinceCleared = 0
       /\ Len(ue.notify_queue) <= hist.cleared[1].posted
            + (IF "switch" \in hist.cleared[1].pcs THEN 1 ELSE 0)

\* C26 amended: the worker thread exits, and Stop returns, only after the
\* running flag has become false; once the flag is false the thread
\* finishes the task it is executing or, if it had already tested the flag
\* and not yet dequeued, dequeues and processes at most one more event, and
\* then exits; every other event in the work queue is never processed and
\* produces no completion event.
C26_AtMostOneMoreEvent ==
  /\ ExitsOnlyWhenCleared
  /\ hist.cleared # <<>> =>
       /\ DequeuedSinceCleared
            <= (IF "dequeue" \in hist.cleared[1].pcs THEN 1 ELSE 0)
       /\ Len(ue.notify_queue) <= hist.cleared[1].posted
            + (IF hist.cleared[1].pcs \cap {"switch", "dequeue"} # {} THEN 1 ELSE 0)

\* C26 witness: the flag was cleared between the thread's test and its
\* dequeue with two events queued; the thread processed the first, posted
\* its completion, and exited; Stop has returned and the second event is
\* still in the work queue
C26_Witness ==
  /\ hist.cleared # <<>>
  /\ "dequeue" \in hist.cleared[1].pcs
  /\ DequeuedSinceCleared = 1
  /\ Len(ue.notify_queue) = hist.cleared[1].posted + 1
  /\ Len(ue.work_queue) = 1
  /\ hist.joined = {1}
  /\ ue.threads[1].pc = "exited"

====
